---------------------------- MODULE Spec2Model ----------------------------
(***************************************************************************)
(* Model of the DataTable component (sort / select logic) of the           *)
(* component library.  JavaScript values are tagged records, arrays are    *)
(* sequences, the caller's data array and the spread copy made by the      *)
(* sort are two distinct array objects.                                    *)
(***************************************************************************)
EXTENDS Integers, Sequences, FiniteSets

(***************************************************************************)
(* Bounds of the model.                                                    *)
(***************************************************************************)
\* largest number of rows of a data prop of the interactive specification
MaxRows == 2
\* largest number of rows of a data prop of the sort specification
MaxSortRows == 3
\* largest number of clicks on the theme toggle
MaxToggles == 3

(***************************************************************************)
(* JavaScript values: [t, n, s] with t the kind, n the numeric payload     *)
(* (number value, day of a Date) and s the string payload.                 *)
(***************************************************************************)
Null == [t |-> "null", n |-> 0, s |-> ""]
Undefined == [t |-> "undefined", n |-> 0, s |-> ""]
NaN == [t |-> "NaN", n |-> 0, s |-> ""]
Num(i) == [t |-> "number", n |-> i, s |-> ""]
Str(x) == [t |-> "string", n |-> 0, s |-> x]
Bool(b) == [t |-> "boolean", n |-> IF b THEN 1 ELSE 0, s |-> ""]
DateAt(d) == [t |-> "date", n |-> d, s |-> ""]

\* typeof v
TypeOf(v) ==
  CASE v.t = "NaN" -> "number"
    [] v.t = "null" -> "object"
    [] v.t = "date" -> "object"
    [] OTHER -> v.t

\* ToBoolean(v), the truthiness test of `!v` and `v && ...`
Truthy(v) ==
  CASE v.t \in {"null", "undefined", "NaN"} -> FALSE
    [] v.t = "number" -> v.n # 0
    [] v.t = "string" -> v.s # ""
    [] v.t = "boolean" -> v.n = 1
    [] OTHER -> TRUE

\* a === b.  NaN is never equal to itself; two cells holding Date values
\* hold distinct Date objects.
StrictEquals(a, b) ==
  /\ a.t = b.t
  /\ a.t \notin {"NaN", "date"}
  /\ a = b

\* v == null
IsNullish(v) == v.t \in {"null", "undefined"}

\* String(v) for the values of the model
DateStrings == <<"Thu Jan 01 1970", "Fri Jan 02 1970", "Sat Jan 03 1970">>

NumStrings == <<"0", "1", "2", "3", "4", "5", "6", "7", "8", "9", "10">>

StringOf(v) ==
  CASE v.t = "string" -> v.s
    [] v.t = "number" -> NumStrings[v.n + 1]
    [] v.t = "NaN" -> "NaN"
    [] v.t = "boolean" -> IF v.n = 1 THEN "true" ELSE "false"
    [] v.t = "null" -> "null"
    [] v.t = "undefined" -> "undefined"
    [] v.t = "date" -> DateStrings[v.n + 1]

\* The strings of the model in the collation order localeCompare uses
\* (digits before letters, lower case before upper case of the same letter).
Collation ==
  <<"", "0", "1", "10", "2", "3", "4", "5", "6", "7", "8", "9", "a", "A",
    "b", "B", "false", "Fri Jan 02 1970", "NaN", "null", "Sat Jan 03 1970",
    "Thu Jan 01 1970", "true", "undefined">>

CollationRank(x) == CHOOSE i \in 1..Len(Collation) : Collation[i] = x

\* x.localeCompare(y)
LocaleCompare(x, y) ==
  IF CollationRank(x) < CollationRank(y) THEN -1
  ELSE IF CollationRank(x) > CollationRank(y) THEN 1
  ELSE 0

\* v.getTime(): milliseconds
GetTime(v) == v.n * 86400000

\* two numbers compared by their difference, as the dates are
compareValuesNumberDifference(a, b) ==
  IF StrictEquals(a, b) THEN 0
  ELSE IF IsNullish(a) THEN -1
  ELSE IF IsNullish(b) THEN 1
  ELSE IF TypeOf(a) = "number" /\ TypeOf(b) = "number" THEN a.n - b.n
  ELSE IF TypeOf(a) = "string" /\ TypeOf(b) = "string"
    THEN LocaleCompare(a.s, b.s)
  ELSE IF a.t = "date" /\ b.t = "date" THEN GetTime(a) - GetTime(b)
  ELSE IF TypeOf(a) = "boolean" /\ TypeOf(b) = "boolean" THEN a.n - b.n
  ELSE LocaleCompare(StringOf(a), StringOf(b))

\* the comparison without its first test, a === b
compareValuesNoIdentity(a, b) ==
  IF IsNullish(a) THEN -1
  ELSE IF IsNullish(b) THEN 1
  ELSE IF TypeOf(a) = "number" /\ TypeOf(b) = "number"
    THEN (IF a.t = "number" /\ b.t = "number" /\ a.n < b.n THEN -1 ELSE 1)
  ELSE IF TypeOf(a) = "string" /\ TypeOf(b) = "string"
    THEN LocaleCompare(a.s, b.s)
  ELSE IF a.t = "date" /\ b.t = "date" THEN GetTime(a) - GetTime(b)
  ELSE IF TypeOf(a) = "boolean" /\ TypeOf(b) = "boolean" THEN a.n - b.n
  ELSE LocaleCompare(StringOf(a), StringOf(b))

\* compareValues(a, b)
compareValues(a, b) ==
  IF StrictEquals(a, b) THEN 0
  ELSE IF IsNullish(a) THEN -1
  ELSE IF IsNullish(b) THEN 1
  ELSE IF TypeOf(a) = "number" /\ TypeOf(b) = "number"
    THEN (IF a.t = "number" /\ b.t = "number" /\ a.n < b.n THEN -1 ELSE 1)
  ELSE IF TypeOf(a) = "string" /\ TypeOf(b) = "string"
    THEN LocaleCompare(a.s, b.s)
  ELSE IF a.t = "date" /\ b.t = "date" THEN GetTime(a) - GetTime(b)
  ELSE IF TypeOf(a) = "boolean" /\ TypeOf(b) = "boolean" THEN a.n - b.n
  ELSE LocaleCompare(StringOf(a), StringOf(b))

(***************************************************************************)
(* Rows, columns and arrays.  A row is an object: id is its identity (two  *)
(* rows with the same cells are still two rows), cells its fields; the     *)
(* rows are tuples, so the column keys are the indices 0 and 1.            *)
(***************************************************************************)
Keys == <<Num(0), Num(1)>>

Asc == Str("asc")
Desc == Str("desc")

\* row[key]
Get(row, key) == row.cells[key.n + 1]

\* sortedData[i] for a 0-based index i: undefined outside the array
UndefinedRow == [id |-> 0, cells |-> <<>>]

At(arr, i) == IF i + 1 \in 1..Len(arr) THEN arr[i + 1] ELSE UndefinedRow

Range(arr) == {arr[i] : i \in 1..Len(arr)}

\* the arrays with the elements of arr in some order
Permutations(arr) ==
  {p \in [1..Len(arr) -> Range(arr)] :
     \A i, j \in 1..Len(arr) : i # j => p[i] # p[j]}

\* the comparator handed to Array.prototype.sort
comparefn(a, b, key, direction) ==
  LET cmp == compareValues(Get(a, key), Get(b, key))
  IN IF direction = Asc THEN cmp ELSE 0 - cmp

\* ECMAScript's "consistent comparator" for the elements of arr
ConsistentComparator(arr, key, direction) ==
  LET S == Range(arr)
      c(a, b) == comparefn(a, b, key, direction)
  IN /\ \A a \in S : c(a, a) = 0
     /\ \A a, b \in S : /\ (c(a, b) = 0) => (c(b, a) = 0)
                        /\ (c(a, b) < 0) <=> (c(b, a) > 0)
     /\ \A a, b, d \in S :
          /\ (c(a, b) = 0 /\ c(b, d) = 0) => (c(a, d) = 0)
          /\ (c(a, b) < 0 /\ c(b, d) < 0) => (c(a, d) < 0)
          /\ (c(a, b) > 0 /\ c(b, d) > 0) => (c(a, d) > 0)

\* insertion of x into the sorted array arr, after the elements that do
\* not compare greater than x
Insert(arr, x, key, direction) ==
  LET keep == {j \in 1..Len(arr) : comparefn(arr[j], x, key, direction) <= 0}
      pos == IF keep = {} THEN 0 ELSE CHOOSE j \in keep : \A l \in keep : l <= j
  IN SubSeq(arr, 1, pos) \o <<x>> \o SubSeq(arr, pos + 1, Len(arr))

RECURSIVE InsertionSort(_, _, _)
InsertionSort(arr, key, direction) ==
  IF Len(arr) <= 1 THEN arr
  ELSE Insert(InsertionSort(SubSeq(arr, 1, Len(arr) - 1), key, direction),
              arr[Len(arr)], key, direction)

\* arr.sort(comparefn): the arrays the call can leave in arr.  With a
\* consistent comparator the sort is the stable sort; otherwise the order is
\* implementation-defined.
ArraySort(arr, key, direction) ==
  IF ConsistentComparator(arr, key, direction)
  THEN {InsertionSort(arr, key, direction)}
  ELSE Permutations(arr)

(***************************************************************************)
(* State of one mounted DataTable.                                         *)
(***************************************************************************)
VARIABLES
  data,             \* props: the rows of the caller's data array
  columns,          \* props: the column descriptors
  loading,          \* props: loading flag
  selectable,       \* props: selectable flag
  onSort,           \* props: TRUE when an onSort callback is supplied
  onRowSelect,      \* props: TRUE when an onRowSelect callback is supplied
  sortKey,          \* useState: active sort key or Null
  sortDirection,    \* useState: Asc, Desc or Null
  selectedRows,     \* useState: Set<number>, in insertion order
  copy,             \* the rows of the array made by [...data]
  sortedData,       \* useMemo: the array it returned, "data" or "copy"
  event,            \* the event handled last
  onSortCalls,      \* the onSort calls made while handling it
  onRowSelectCalls, \* the onRowSelect calls made while handling it
  streak,           \* clicks in a row on one sortable column, from no sort
  toggle,           \* clicks in a row on the checkbox of one row
  call              \* the application of a pure function: inputs and result

\* State of the ThemeToggle component and of the browser around it.
VARIABLES
  themeMounted,     \* TRUE while a ThemeToggle is mounted
  isDark,           \* useState: the theme shown
  effectPending,    \* TRUE while the useEffect of the last render has not run
  themeStorage,     \* localStorage.getItem("theme"): Null or a string
  rootDark,         \* document.documentElement.classList.contains("dark")
  prefersDark,      \* matchMedia("(prefers-color-scheme: dark)").matches
  toggles,          \* the number of clicks on the toggle so far
  themeEvent        \* the ThemeToggle event handled last

\* State of one mounted InputField.
VARIABLES
  inputProps,       \* props of the latest render
  showPassword,     \* useState: TRUE while the password is shown
  inputEvent        \* the InputField event handled last

tableVars ==
  <<data, columns, loading, selectable, onSort, onRowSelect, sortKey,
    sortDirection, selectedRows, copy, sortedData, event, onSortCalls,
    onRowSelectCalls, streak, toggle>>

themeVars ==
  <<themeMounted, isDark, effectPending, themeStorage, rootDark, prefersDark,
    toggles, themeEvent>>

inputVars == <<inputProps, showPassword, inputEvent>>

vars == <<tableVars, call,
                 themeVars, inputVars>>

\* the rows of the array sortedData refers to
View == IF sortedData = "data" THEN data ELSE copy

\* the rows with the given cells, in the order given
RowsOf(cells) == [i \in 1..Len(cells) |-> [id |-> i, cells |-> cells[i]]]

\* the arrays of at most max rows with cells drawn from vals0 and vals1
DataArrays(vals0, vals1, max) ==
  LET tuples == {<<a, b>> : a \in vals0, b \in vals1}
  IN UNION {{RowsOf(c) : c \in [1..n -> tuples]} : n \in 0..max}

ColumnSets ==
  {<<[key |-> Keys[1], sortable |-> s0], [key |-> Keys[2], sortable |-> s1]>> :
     s0 \in BOOLEAN, s1 \in BOOLEAN}

(***************************************************************************)
(* const sortedData = useMemo(...): the outcomes of a render in which the  *)
(* dependencies changed.  Each is the caller's array, the copy and the     *)
(* array returned.                                                         *)
(***************************************************************************)
\* the sort without the spread: data.sort(...) sorts the caller's array
sortedDataMemoInPlace(d, key, direction) ==
  IF ~Truthy(key) \/ ~Truthy(direction)
  THEN {[data |-> d, copy |-> <<>>, ref |-> "data"]}
  ELSE {[data |-> s, copy |-> <<>>, ref |-> "data"] :
          s \in ArraySort(d, key, direction)}

\* the early return replaced by a copy: [...data] without a sort
sortedDataMemoCopy(d, key, direction) ==
  IF ~Truthy(key) \/ ~Truthy(direction)
  THEN {[data |-> d, copy |-> d, ref |-> "copy"]}
  ELSE {[data |-> d, copy |-> s, ref |-> "copy"] :
          s \in ArraySort(d, key, direction)}

sortedDataMemo(d, key, direction) ==
  IF ~Truthy(key) \/ ~Truthy(direction)
  THEN {[data |-> d, copy |-> <<>>, ref |-> "data"]}
  ELSE {[data |-> d, copy |-> s, ref |-> "copy"] :
          s \in ArraySort(d, key, direction)}

\* a render: the memo is recomputed when [data, sortKey, sortDirection]
\* changed, and kept otherwise
Render(d, newArray, key, direction) ==
  IF newArray \/ key # sortKey \/ direction # sortDirection
  THEN \E m \in sortedDataMemo(d, key, direction) :
         /\ data' = m.data
         /\ copy' = m.copy
         /\ sortedData' = m.ref
  ELSE UNCHANGED <<data, copy, sortedData>>

\* the table (header and rows) is rendered: neither loading nor empty
TableRendered == ~loading /\ Len(View) # 0

(***************************************************************************)
(* handleSort                                                              *)
(***************************************************************************)
\* every column taken as sortable
sortableAlways(column) == TRUE

\* column.sortable, absent read as false

sortable(column) == column.sortable

\* columns.find((col) => col.key === key)?.sortable
Sortable(key) ==
  \E i \in 1..Len(columns) :
    /\ StrictEquals(columns[i].key, key)
    /\ \A j \in 1..(i - 1) : ~StrictEquals(columns[j].key, key)
    /\ sortable(columns[i])

\* the cycle without its third step: desc goes back to asc
newDirectionToggle(key) ==
  IF StrictEquals(sortKey, key)
  THEN IF sortDirection = Asc THEN Desc ELSE Asc
  ELSE Asc

\* another column takes over the direction of the active one
newDirectionKeep(key) ==
  IF StrictEquals(sortKey, key)
  THEN IF sortDirection = Asc THEN Desc
       ELSE IF sortDirection = Desc THEN Null
       ELSE Asc
  ELSE IF sortDirection = Desc THEN Desc ELSE Asc

newDirection(key) ==
  IF StrictEquals(sortKey, key)
  THEN IF sortDirection = Asc THEN Desc
       ELSE IF sortDirection = Desc THEN Null
       ELSE Asc
  ELSE Asc

\* the notification without the test of the direction
onSortNotifyAlways(key, d) ==
  IF onSort THEN <<[key |-> key, direction |-> d]>> ELSE <<>>

\* the onSort calls of handleSort(key) that computed direction d
onSortNotify(key, d) ==
  IF onSort /\ Truthy(d) THEN <<[key |-> key, direction |-> d]>> ELSE <<>>

handleSort(key) ==
  IF ~Sortable(key)
  THEN /\ UNCHANGED <<sortKey, sortDirection, data, copy, sortedData>>
       /\ onSortCalls' = <<>>
  ELSE LET d == newDirection(key)
           k == IF Truthy(d) THEN key ELSE Null
       IN /\ sortKey' = k
          /\ sortDirection' = d
          /\ onSortCalls' = onSortNotify(key, d)
          /\ Render(data, FALSE, k, d)

\* no clicks in a row on a row checkbox
NoToggle == [index |-> 0, n |-> 0, before |-> <<>>]

\* no pure function applied
NoCall == [fn |-> "none"]

\* no ThemeToggle takes part: none is mounted in a fresh browser profile
NoTheme ==
  /\ themeMounted = FALSE
  /\ isDark = FALSE
  /\ effectPending = FALSE
  /\ themeStorage = Null
  /\ rootDark = FALSE
  /\ prefersDark = FALSE
  /\ toggles = 0
  /\ themeEvent = "none"

\* no InputField takes part
NoInput ==
  /\ inputProps = <<>>
  /\ showPassword = FALSE
  /\ inputEvent = "none"

\* no streak of clicks
NoStreak == [col |-> 0, n |-> 0, from |-> <<>>]

\* streak after a click on column c: the column, the number of clicks and
\* the rows of data before the first of them
Streak(c) ==
  IF ~columns[c].sortable THEN NoStreak
  ELSE IF streak.col = c /\ streak.n \in 1..2
    THEN [streak EXCEPT !.n = streak.n + 1]
  ELSE IF sortKey = Null /\ sortDirection = Null
    THEN [col |-> c, n |-> 1, from |-> data]
  ELSE NoStreak

\* a header click that also clears the selection and reports it
HeaderClickClearSelection(c) ==
  /\ TableRendered
  /\ event' = [type |-> "click", arg |-> c, key |-> ""]
  /\ streak' = Streak(c)
  /\ toggle' = NoToggle
  /\ IF sortable(columns[c])
     THEN handleSort(columns[c].key)
     ELSE /\ UNCHANGED <<sortKey, sortDirection, data, copy, sortedData>>
          /\ onSortCalls' = <<>>
  /\ selectedRows' = <<>>
  /\ onRowSelectCalls' = IF onRowSelect THEN <<<<>>>> ELSE <<>>
  /\ UNCHANGED <<columns, loading, selectable, onSort, onRowSelect, call,
                 themeVars, inputVars>>

\* <th onClick={() => column.sortable && handleSort(column.key)}>
HeaderClick(c) ==
  /\ TableRendered
  /\ event' = [type |-> "click", arg |-> c, key |-> ""]
  /\ streak' = Streak(c)
  /\ toggle' = NoToggle
  /\ IF sortable(columns[c])
     THEN handleSort(columns[c].key)
     ELSE /\ UNCHANGED <<sortKey, sortDirection, data, copy, sortedData>>
          /\ onSortCalls' = <<>>
  /\ onRowSelectCalls' = <<>>
  /\ UNCHANGED <<columns, loading, selectable, onSort, onRowSelect,
                 selectedRows, call,
                 themeVars, inputVars>>

KeyNames == {"Enter", " ", "Tab"}

\* <th onKeyDown={...}>
HeaderKeyDown(c, name) ==
  /\ TableRendered
  /\ event' = [type |-> "keydown", arg |-> c, key |-> name]
  /\ streak' = NoStreak
  /\ toggle' = NoToggle
  /\ IF sortable(columns[c]) /\ (name = "Enter" \/ name = " ")
     THEN handleSort(columns[c].key)
     ELSE /\ UNCHANGED <<sortKey, sortDirection, data, copy, sortedData>>
          /\ onSortCalls' = <<>>
  /\ onRowSelectCalls' = <<>>
  /\ UNCHANGED <<columns, loading, selectable, onSort, onRowSelect,
                 selectedRows, call,
                 themeVars, inputVars>>

(***************************************************************************)
(* Row selection                                                           *)
(***************************************************************************)
Has(set, index) == \E i \in 1..Len(set) : set[i] = index

\* a set kept in ascending order of its members
AddAscending(set, index) ==
  IF Has(set, index) THEN set
  ELSE SelectSeq(set, LAMBDA x : x < index) \o <<index>> \o
       SelectSeq(set, LAMBDA x : x > index)

\* set.add(index): a Set keeps its members in insertion order
Add(set, index) == IF Has(set, index) THEN set ELSE Append(set, index)

\* the index taken for a position: the member at position index is removed
DeleteAt(set, index) ==
  [i \in 1..(IF index < Len(set) THEN Len(set) - 1 ELSE Len(set)) |->
     IF i <= index THEN set[i] ELSE set[i + 1]]

\* set.delete(index)
Delete(set, index) == SelectSeq(set, LAMBDA x : x # index)

\* the rows taken from the data prop instead of the sorted view
SelectedFromData(set) == [i \in 1..Len(set) |-> At(data, set[i])]

\* Array.from(newSelectedRows).map((i) => sortedData[i])
Selected(set) == [i \in 1..Len(set) |-> At(View, set[i])]

\* the onRowSelect calls of a handler that selected set
onRowSelectNotify(set) == IF onRowSelect THEN <<Selected(set)>> ELSE <<>>

handleRowSelect(index, isSelected) ==
  LET newSelectedRows ==
        IF isSelected THEN Add(selectedRows, index)
        ELSE Delete(selectedRows, index)
  IN /\ selectedRows' = newSelectedRows
     /\ onRowSelectCalls' = onRowSelectNotify(newSelectedRows)

\* the indices 0 .. n-1 in the order forEach adds them
Indices(n) == [i \in 1..n |-> i - 1]

\* a partial selection taken as complete: any selection is cleared
handleSelectAllClearPartial ==
  LET isAllSelected == Len(selectedRows) > 0
      newSelectedRows == IF ~isAllSelected THEN Indices(Len(View)) ELSE <<>>
  IN /\ selectedRows' = newSelectedRows
     /\ onRowSelectCalls' = onRowSelectNotify(newSelectedRows)

handleSelectAll ==
  LET isAllSelected == Len(selectedRows) = Len(View)
      newSelectedRows == IF ~isAllSelected THEN Indices(Len(View)) ELSE <<>>
  IN /\ selectedRows' = newSelectedRows
     /\ onRowSelectCalls' = onRowSelectNotify(newSelectedRows)

\* the test of a complete selection made first
selectAllStateAllFirst ==
  IF Len(selectedRows) = Len(View) THEN "all"
  ELSE IF Len(selectedRows) = 0 THEN "none"
  ELSE "partial"

selectAllState ==
  IF Len(selectedRows) = 0 THEN "none"
  ELSE IF Len(selectedRows) = Len(View) THEN "all"
  ELSE "partial"

\* toggle after a click on the checkbox of the row at index: the index, the
\* number of clicks and the selection before the first of them, which
\* selected the row
Toggle(index) ==
  IF toggle.n = 1 /\ toggle.index = index THEN [toggle EXCEPT !.n = 2]
  ELSE IF ~Has(selectedRows, index)
    THEN [index |-> index, n |-> 1, before |-> selectedRows]
  ELSE NoToggle

\* the checkbox button of the row at index
RowCheckboxClick(index) ==
  /\ TableRendered
  /\ selectable
  /\ index \in 0..(Len(View) - 1)
  /\ event' = [type |-> "rowselect", arg |-> index, key |-> ""]
  /\ handleRowSelect(index, ~Has(selectedRows, index))
  /\ onSortCalls' = <<>>
  /\ streak' = NoStreak
  /\ toggle' = Toggle(index)
  /\ UNCHANGED <<data, columns, loading, selectable, onSort, onRowSelect,
                 sortKey, sortDirection, copy, sortedData, call,
                 themeVars, inputVars>>

\* the select-all button of the header
SelectAllClick ==
  /\ TableRendered
  /\ selectable
  /\ event' = [type |-> "selectall", arg |-> 0, key |-> ""]
  /\ handleSelectAll
  /\ onSortCalls' = <<>>
  /\ streak' = NoStreak
  /\ toggle' = NoToggle
  /\ UNCHANGED <<data, columns, loading, selectable, onSort, onRowSelect,
                 sortKey, sortDirection, copy, sortedData, call,
                 themeVars, inputVars>>

(***************************************************************************)
(* The parent renders the table again with another data array, or with     *)
(* another loading flag.                                                   *)
(***************************************************************************)
SetData(d) ==
  /\ event' = [type |-> "data", arg |-> 0, key |-> ""]
  /\ Render(d, TRUE, sortKey, sortDirection)
  /\ onSortCalls' = <<>>
  /\ onRowSelectCalls' = <<>>
  /\ streak' = NoStreak
  /\ toggle' = NoToggle
  /\ UNCHANGED <<columns, loading, selectable, onSort, onRowSelect, sortKey,
                 sortDirection, selectedRows, call,
                 themeVars, inputVars>>

SetLoading(l) ==
  /\ l # loading
  /\ loading' = l
  /\ event' = [type |-> "loading", arg |-> 0, key |-> ""]
  /\ onSortCalls' = <<>>
  /\ onRowSelectCalls' = <<>>
  /\ streak' = NoStreak
  /\ toggle' = NoToggle
  /\ UNCHANGED <<data, columns, selectable, onSort, onRowSelect, sortKey,
                 sortDirection, selectedRows, copy, sortedData, call,
                 themeVars, inputVars>>

(***************************************************************************)
(* Specifications.  Spec is the mounted table, its callbacks supplied,     *)
(* under user events and prop changes, over rows of number cells.          *)
(* SpecSort is the table sorted by header clicks over rows whose cells     *)
(* are numbers, NaN, null or absent.                                       *)
(***************************************************************************)
Mounted(arrays) ==
  /\ data \in arrays
  /\ columns \in ColumnSets
  /\ loading \in BOOLEAN
  /\ selectable \in BOOLEAN
  /\ onSort \in BOOLEAN
  /\ onRowSelect \in BOOLEAN
  /\ sortKey = Null
  /\ sortDirection = Null
  /\ selectedRows = <<>>
  /\ copy = <<>>
  /\ sortedData = "data"
  /\ event = [type |-> "mount", arg |-> 0, key |-> ""]
  /\ onSortCalls = <<>>
  /\ onRowSelectCalls = <<>>
  /\ streak = NoStreak
  /\ toggle = NoToggle

TableData == DataArrays({Num(1)}, {Num(1), Num(2)}, MaxRows)

Init ==
  /\ Mounted(TableData)
  /\ onSort
  /\ onRowSelect
  /\ call = NoCall
  /\ NoTheme
  /\ NoInput

Next ==
  \/ \E c \in 1..Len(Keys) : HeaderClick(c)
  \/ \E c \in 1..Len(Keys), name \in KeyNames : HeaderKeyDown(c, name)
  \/ \E index \in 0..(MaxRows - 1) : RowCheckboxClick(index)
  \/ SelectAllClick
  \/ \E d \in TableData : SetData(d)
  \/ \E l \in BOOLEAN : SetLoading(l)

Spec == Init /\ [][Next]_vars

SortValues == {Null, Undefined, Num(1), Num(2), NaN}

SortData == DataArrays({Num(1), Num(2)}, SortValues, MaxSortRows)

InitSort ==
  /\ Mounted(SortData)
  /\ columns = <<[key |-> Keys[1], sortable |-> TRUE],
                 [key |-> Keys[2], sortable |-> TRUE]>>
  /\ ~loading
  /\ ~selectable
  /\ ~onRowSelect
  /\ call = NoCall
  /\ NoTheme
  /\ NoInput

NextSort == \E c \in 1..Len(Keys) : HeaderClick(c)

SpecSort == InitSort /\ [][NextSort]_vars

(***************************************************************************)
(* SpecCompare is compareValues applied to a pair of cell values of every  *)
(* kind, in both orders.  No table takes part: its state is that of a      *)
(* table mounted with no rows.                                             *)
(***************************************************************************)
NoTable ==
  /\ Mounted({<<>>})
  /\ columns = <<[key |-> Keys[1], sortable |-> FALSE],
                 [key |-> Keys[2], sortable |-> FALSE]>>
  /\ ~loading
  /\ ~selectable
  /\ ~onSort
  /\ ~onRowSelect

CompareInputs ==
  {Null, Undefined, NaN, Num(1), Num(2), Num(10), Str(""), Str("a"),
   Str("B"), Str("10"), Str("2"), Bool(FALSE), Bool(TRUE), DateAt(0),
   DateAt(2)}

InitCompare ==
  /\ NoTable
  /\ NoTheme
  /\ NoInput
  /\ \E a \in CompareInputs, b \in CompareInputs :
       call = [fn |-> "input", a |-> a, b |-> b, result |-> 0, swapped |-> 0]

\* compareValues(a, b) and compareValues(b, a)
CallCompareValues ==
  /\ call.fn = "input"
  /\ call' = [call EXCEPT !.fn = "compareValues",
                          !.result = compareValues(call.a, call.b),
                          !.swapped = compareValues(call.b, call.a)]
  /\ UNCHANGED <<tableVars, themeVars, inputVars>>

NextCompare == CallCompareValues

SpecCompare == InitCompare /\ [][NextCompare]_vars

(***************************************************************************)
(* SpecCell is renderCell applied to a column, with or without a render    *)
(* function, and a row.                                                    *)
(***************************************************************************)
\* column.render absent
NoRender == "none"

\* the render functions of the columns: one returns an element made of the
\* value and the row, one returns null, one returns the value itself
Renders == {"element", "null", "value"}

\* column.render(value, row)
ApplyRender(render, value, row) ==
  CASE render = "element" -> [t |-> "element", n |-> row.id, s |-> "", of |-> value]
    [] render = "null" -> Null
    [] render = "value" -> value

\* the value converted with `||` in place of `??`
renderCellOr(column, row) ==
  LET value == Get(row, column.key)
  IN IF column.render # NoRender
     THEN ApplyRender(column.render, value, row)
     ELSE Str(IF ~Truthy(value) THEN "" ELSE StringOf(value))

renderCell(column, row) ==
  LET value == Get(row, column.key)
  IN IF column.render # NoRender
     THEN ApplyRender(column.render, value, row)
     ELSE Str(IF IsNullish(value) THEN "" ELSE StringOf(value))

CellColumns ==
  {[key |-> Keys[k], render |-> r] :
     k \in 1..Len(Keys), r \in {NoRender} \cup Renders}

CellValues ==
  {Null, Undefined, NaN, Num(0), Num(1), Str(""), Str("a"), Bool(FALSE),
   Bool(TRUE)}

CellRows ==
  {[id |-> 1, cells |-> <<a, b>>] : a \in CellValues, b \in {Null, Num(1)}}

InitCell ==
  /\ NoTable
  /\ NoTheme
  /\ NoInput
  /\ \E column \in CellColumns, row \in CellRows :
       call = [fn |-> "input", column |-> column, row |-> row, result |-> Null]

CallRenderCell ==
  /\ call.fn = "input"
  /\ call' = [call EXCEPT !.fn = "renderCell",
                          !.result = renderCell(call.column, call.row)]
  /\ UNCHANGED <<tableVars, themeVars, inputVars>>

NextCell == CallRenderCell

SpecCell == InitCell /\ [][NextCell]_vars

(***************************************************************************)
(* SpecDisplay is the first render of a DataTable as a function of its     *)
(* props: which of the loading display, the empty-message display and the  *)
(* table it returns, and the text it shows.                                *)
(***************************************************************************)
\* emptyMessage = "No data available": the default of an absent prop
DefaultEmptyMessage == Str("No data available")

EmptyMessage(prop) == IF prop = Undefined THEN DefaultEmptyMessage ELSE prop

\* the render without its empty branch: a table without rows
DataTableRenderNoEmpty(d, isLoading, emptyMessage) ==
  IF isLoading
  THEN [state |-> "loading", text |-> Str("Loading...")]
  ELSE [state |-> "table", text |-> Str("")]

\* the element DataTable returns for the props data, loading, emptyMessage
DataTableRender(d, isLoading, emptyMessage) ==
  LET m == CHOOSE x \in sortedDataMemo(d, Null, Null) : TRUE
      rows == IF m.ref = "data" THEN m.data ELSE m.copy
  IN IF isLoading
     THEN [state |-> "loading", text |-> Str("Loading...")]
     ELSE IF Len(rows) = 0
       THEN [state |-> "empty", text |-> EmptyMessage(emptyMessage)]
     ELSE [state |-> "table", text |-> Str("")]

EmptyMessages == {Undefined, Str(""), Str("a")}

InitDisplay ==
  /\ NoTable
  /\ NoTheme
  /\ NoInput
  /\ \E d \in TableData, l \in BOOLEAN, s \in BOOLEAN, e \in EmptyMessages :
       call = [fn |-> "input", data |-> d, loading |-> l, selectable |-> s,
               emptyMessage |-> e, result |-> [state |-> "", text |-> Null]]

CallDataTable ==
  /\ call.fn = "input"
  /\ call' = [call EXCEPT
                !.fn = "DataTable",
                !.result = DataTableRender(call.data, call.loading,
                                           call.emptyMessage)]
  /\ UNCHANGED <<tableVars, themeVars, inputVars>>

NextDisplay == CallDataTable

SpecDisplay == InitDisplay /\ [][NextDisplay]_vars

(***************************************************************************)
(* ThemeToggle.  SpecTheme is a browser profile without a saved theme in   *)
(* which a ThemeToggle is mounted, clicked and unmounted while the system  *)
(* colour scheme changes.  The effect of a render runs before the next     *)
(* event is handled.                                                       *)
(***************************************************************************)
\* the useState initializer: the saved theme if any, else the system's
InitialIsDark ==
  IF Truthy(themeStorage) THEN StrictEquals(themeStorage, Str("dark"))
  ELSE prefersDark

\* the first render of a ThemeToggle
ThemeMount ==
  /\ ~themeMounted
  /\ themeMounted' = TRUE
  /\ isDark' = InitialIsDark
  /\ effectPending' = TRUE
  /\ themeEvent' = "mount"
  /\ UNCHANGED <<themeStorage, rootDark, prefersDark, toggles>>
  /\ UNCHANGED <<tableVars, call, inputVars>>

\* the effect without its else branch: the class is added, never removed
ThemeEffectAddOnly ==
  /\ themeMounted
  /\ effectPending
  /\ effectPending' = FALSE
  /\ rootDark' = (rootDark \/ isDark)
  /\ themeStorage' = IF isDark THEN Str("dark") ELSE themeStorage
  /\ themeEvent' = "effect"
  /\ UNCHANGED <<themeMounted, isDark, prefersDark, toggles>>
  /\ UNCHANGED <<tableVars, call, inputVars>>

\* useEffect(() => {...}, [isDark])
ThemeEffect ==
  /\ themeMounted
  /\ effectPending
  /\ effectPending' = FALSE
  /\ rootDark' = isDark
  /\ themeStorage' = IF isDark THEN Str("dark") ELSE Str("light")
  /\ themeEvent' = "effect"
  /\ UNCHANGED <<themeMounted, isDark, prefersDark, toggles>>
  /\ UNCHANGED <<tableVars, call, inputVars>>

\* <button onClick={toggleTheme}>: setIsDark(!isDark) and the render after
toggleTheme ==
  /\ themeMounted
  /\ ~effectPending
  /\ toggles < MaxToggles
  /\ isDark' = ~isDark
  /\ effectPending' = TRUE
  /\ toggles' = toggles + 1
  /\ themeEvent' = "toggle"
  /\ UNCHANGED <<themeMounted, themeStorage, rootDark, prefersDark>>
  /\ UNCHANGED <<tableVars, call, inputVars>>

\* the parent stops rendering the ThemeToggle: its state is dropped
ThemeUnmount ==
  /\ themeMounted
  /\ ~effectPending
  /\ themeMounted' = FALSE
  /\ isDark' = FALSE
  /\ themeEvent' = "unmount"
  /\ UNCHANGED <<effectPending, themeStorage, rootDark, prefersDark, toggles>>
  /\ UNCHANGED <<tableVars, call, inputVars>>

\* the user changes the colour scheme of the system
SystemChange ==
  /\ prefersDark' = ~prefersDark
  /\ themeEvent' = "system"
  /\ UNCHANGED <<themeMounted, isDark, effectPending, themeStorage, rootDark,
                 toggles>>
  /\ UNCHANGED <<tableVars, call, inputVars>>

InitTheme ==
  /\ NoTable
  /\ NoInput
  /\ call = NoCall
  /\ themeMounted = FALSE
  /\ isDark = FALSE
  /\ effectPending = FALSE
  /\ themeStorage = Null
  /\ rootDark = FALSE
  /\ prefersDark \in BOOLEAN
  /\ toggles = 0
  /\ themeEvent = "none"

NextTheme ==
  \/ ThemeMount
  \/ ThemeEffect
  \/ toggleTheme
  \/ ThemeUnmount
  \/ SystemChange

SpecTheme == InitTheme /\ [][NextTheme]_vars

(***************************************************************************)
(* InputField.  SpecInput is one InputField mounted with any props, whose  *)
(* parent renders it again with one prop changed at a time and whose clear *)
(* button and password toggle are clicked.                                 *)
(***************************************************************************)
\* the values of the props; an absent prop is Undefined, a callback prop or
\* an icon is TRUE when supplied
InputPropValues ==
  [value |-> {Undefined, Str(""), Str("a")},
   loading |-> BOOLEAN,
   disabled |-> BOOLEAN,
   type |-> {"text", "email", "password"},
   showClearButton |-> BOOLEAN,
   showPasswordToggle |-> BOOLEAN,
   endIcon |-> BOOLEAN,
   onClear |-> BOOLEAN,
   helperText |-> {Undefined, Str("h")},
   errorMessage |-> {Undefined, Str("e")},
   invalid |-> BOOLEAN,
   ariaDescribedBy |-> {Undefined, Str("d")},
   id |-> {Undefined, Str("f")}]

InputPropNames == DOMAIN InputPropValues

InputPropSets ==
  [value : InputPropValues.value,
   loading : InputPropValues.loading,
   disabled : InputPropValues.disabled,
   type : InputPropValues.type,
   showClearButton : InputPropValues.showClearButton,
   showPasswordToggle : InputPropValues.showPasswordToggle,
   endIcon : InputPropValues.endIcon,
   onClear : InputPropValues.onClear,
   helperText : InputPropValues.helperText,
   errorMessage : InputPropValues.errorMessage,
   invalid : InputPropValues.invalid,
   ariaDescribedBy : InputPropValues.ariaDescribedBy,
   id : InputPropValues.id]

\* useId()
generatedId == Str(":r0:")

inputId == IF Truthy(inputProps.id) THEN inputProps.id ELSE generatedId

\* `${inputId}-helper` and `${inputId}-error`
helperId == [of |-> inputId, suffix |-> "-helper"]

errorId == [of |-> inputId, suffix |-> "-error"]

isPassword == inputProps.type = "password"

\* the type shown as text whatever the type prop is
inputTypeAnyType == IF showPassword THEN "text" ELSE inputProps.type

\* the type attribute of the <input>
inputType == IF isPassword /\ showPassword THEN "text" ELSE inputProps.type

hasError == inputProps.invalid \/ Truthy(inputProps.errorMessage)

\* the clear button rendered next to the spinner
ClearButtonWhileLoading ==
  /\ inputProps.showClearButton
  /\ Truthy(inputProps.value)

\* the clear button is rendered
ClearButton ==
  /\ ~inputProps.loading
  /\ inputProps.showClearButton
  /\ Truthy(inputProps.value)

\* the password toggle is rendered
PasswordToggle ==
  /\ ~inputProps.loading
  /\ isPassword
  /\ inputProps.showPasswordToggle

\* the aria-describedby attribute of the <input>
ariaDescribedByAttr ==
  IF Truthy(inputProps.ariaDescribedBy) THEN inputProps.ariaDescribedBy
  ELSE IF Truthy(inputProps.helperText) THEN helperId
  ELSE IF hasError THEN errorId
  ELSE Undefined

\* the ids of the helper text / error message elements rendered
DescriptionIds ==
  IF Truthy(inputProps.helperText) \/ Truthy(inputProps.errorMessage)
  THEN {IF hasError THEN errorId ELSE helperId}
  ELSE {}

\* handleClear: the callback it calls
handleClear ==
  IF inputProps.onClear THEN "onClear" ELSE "onChange"

\* <button onClick={handleClear} disabled={disabled}>
ClearClick ==
  /\ ClearButton
  /\ ~inputProps.disabled
  /\ inputEvent' = [type |-> "clear", call |-> handleClear]
  /\ UNCHANGED <<inputProps, showPassword>>
  /\ UNCHANGED <<tableVars, call, themeVars>>

\* <button onClick={togglePasswordVisibility} disabled={disabled}>
togglePasswordVisibility ==
  /\ PasswordToggle
  /\ ~inputProps.disabled
  /\ showPassword' = ~showPassword
  /\ inputEvent' = [type |-> "toggle", call |-> "none"]
  /\ UNCHANGED inputProps
  /\ UNCHANGED <<tableVars, call, themeVars>>

\* the parent renders the InputField again with another value of prop name
InputSetProp(name, v) ==
  /\ v # inputProps[name]
  /\ inputProps' = [inputProps EXCEPT ![name] = v]
  /\ inputEvent' = [type |-> "props", call |-> "none"]
  /\ UNCHANGED showPassword
  /\ UNCHANGED <<tableVars, call, themeVars>>

InitInput ==
  /\ NoTable
  /\ NoTheme
  /\ call = NoCall
  /\ inputProps \in InputPropSets
  /\ showPassword = FALSE
  /\ inputEvent = [type |-> "mount", call |-> "none"]

NextInput ==
  \/ ClearClick
  \/ togglePasswordVisibility
  \/ \E name \in InputPropNames :
       \E v \in InputPropValues[name] : InputSetProp(name, v)

SpecInput == InitInput /\ [][NextInput]_vars

(***************************************************************************)
(* Properties                                                              *)
(***************************************************************************)
Cols == 1..Len(Keys)

\* the step handled a click on the header of column c
Clicked(c) == event'.type = "click" /\ event'.arg = c

\* the step handled a click, or an Enter or Space key press, on the header
\* of column c
SortRequested(c) ==
  \/ Clicked(c)
  \/ event'.type = "keydown" /\ event'.arg = c /\ event'.key \in {"Enter", " "}

\* the state is the one a sort request on a sortable column left
AfterSortRequest ==
  /\ \/ event.type = "click"
     \/ event.type = "keydown" /\ event.key \in {"Enter", " "}
  /\ columns[event.arg].sortable

Reverse(arr) == [i \in 1..Len(arr) |-> arr[Len(arr) + 1 - i]]

\* C1: a sort request on sortable column k moves ASC(k) to DESC(k), DESC(k)
\* to NONE (key and direction cleared) and NONE to ASC(k).
C1_SortCycle ==
  [][\A c \in Cols :
       (SortRequested(c) /\ columns[c].sortable) =>
         LET k == columns[c].key
         IN /\ (sortKey = k /\ sortDirection = Asc) =>
                 (sortKey' = k /\ sortDirection' = Desc)
            /\ (sortKey = k /\ sortDirection = Desc) =>
                 (sortKey' = Null /\ sortDirection' = Null)
            /\ (sortKey = Null /\ sortDirection = Null) =>
                 (sortKey' = k /\ sortDirection' = Asc)]_vars

\* two clicks in a row on one sortable column, from NONE, have led to DESC
C1_Witness ==
  /\ streak.n = 2
  /\ sortKey = columns[streak.col].key
  /\ sortDirection = Desc

\* C2: with active key j # k, in either direction, a sort request on
\* sortable column k moves the state to ASC(k).
C2_SwitchColumn ==
  [][\A c \in Cols :
       (/\ SortRequested(c)
        /\ columns[c].sortable
        /\ sortKey # Null
        /\ sortKey # columns[c].key
        /\ sortDirection \in {Asc, Desc}) =>
         (sortKey' = columns[c].key /\ sortDirection' = Asc)]_vars

\* a click on a sortable column that neither started nor continued a streak
\* has led to ASC of that column: the click switched columns
C2_Witness ==
  /\ event.type = "click"
  /\ columns[event.arg].sortable
  /\ streak.n = 0
  /\ sortKey = columns[event.arg].key
  /\ sortDirection = Asc

\* C3: a click or key press on the header of a column that is not sortable
\* changes neither sortKey nor sortDirection nor the sorted view, and calls
\* onSort not at all.
C3_NonSortableNoOp ==
  [][\A c \in Cols :
       (/\ event'.type \in {"click", "keydown"}
        /\ event'.arg = c
        /\ ~columns[c].sortable) =>
         /\ sortKey' = sortKey
         /\ sortDirection' = sortDirection
         /\ sortedData' = sortedData
         /\ View' = View
         /\ onSortCalls' = <<>>]_vars

\* a click on a column that is not sortable was handled while another
\* column was sorted descending
C3_Witness ==
  /\ event.type = "click"
  /\ ~columns[event.arg].sortable
  /\ sortDirection = Desc
  /\ View # data

\* C4: three clicks in a row on one sortable column, starting with no sort,
\* end with no sort and with the view equal to the input data.
C4_ThreeClicks ==
  streak.n = 3 =>
    /\ sortKey = Null
    /\ sortDirection = Null
    /\ View = streak.from
    /\ data = streak.from

\* the third click has been handled, on data that is not in sorted order
C4_Witness ==
  /\ streak.n = 3
  /\ event.type = "click"
  /\ Len(data) = 2
  /\ compareValues(Get(data[1], Keys[2]), Get(data[2], Keys[2])) > 0
  /\ streak.col = 2

\* C5: handleSort, given an onSort callback, calls it once with the key and
\* the direction entered when it lands in ASC or DESC, and not at all when it
\* lands in NONE.
C5_OnSortCalls ==
  (AfterSortRequest /\ onSort) =>
    IF sortDirection # Null
    THEN onSortCalls =
           <<[key |-> columns[event.arg].key, direction |-> sortDirection]>>
    ELSE onSortCalls = <<>>

\* a sort request has entered DESC and onSort was called with it
C5_Witness ==
  /\ AfterSortRequest
  /\ onSort
  /\ sortDirection = Desc
  /\ Len(onSortCalls) = 1
  /\ onSortCalls[1].direction = Desc

\* C6: with no sort key or no sort direction, the sorted view is the data
\* array itself.
C6_IdentityWhenUnsorted ==
  (sortKey = Null \/ sortDirection = Null) =>
    (sortedData = "data" /\ View = data)

\* the memo was computed with no key for rows that are out of order: the
\* parent handed over another data array while no sort was active
C6_Witness ==
  /\ sortKey = Null
  /\ event.type = "data"
  /\ Len(data) = 2
  /\ compareValues(Get(data[1], Keys[2]), Get(data[2], Keys[2])) > 0
  /\ sortedData = "data"

\* the rows of a are the rows of b, each once
IsPermutation(a, b) ==
  /\ Len(a) = Len(b)
  /\ \A r \in Range(b) :
       Cardinality({i \in 1..Len(a) : a[i] = r})
         = Cardinality({i \in 1..Len(b) : b[i] = r})

\* C7: with a sort key k and a direction set, the sorted view is a
\* permutation of data whose adjacent rows are in comparator order on k:
\* <= 0 ascending, >= 0 descending.
C7_SortedView ==
  (sortKey # Null /\ sortDirection # Null) =>
    /\ IsPermutation(View, data)
    /\ \A i \in 1..(Len(View) - 1) :
         LET cmp == compareValues(Get(View[i], sortKey), Get(View[i + 1], sortKey))
         IN IF sortDirection = Asc THEN cmp <= 0 ELSE cmp >= 0

\* C8: no step but the parent handing over another data array changes the
\* rows of the caller's data array.
C8_DataNotMutated ==
  [][event'.type # "data" => data' = data]_vars

\* a sort click has produced a view in another order than data
C8_Witness ==
  /\ AfterSortRequest
  /\ sortedData = "copy"
  /\ View # data
  /\ Len(View) = Len(data)

\* no two rows of arr compare as 0 on key
NoTies(arr, key) ==
  \A i, j \in 1..Len(arr) :
    i # j => compareValues(Get(arr[i], key), Get(arr[j], key)) # 0

\* C9: on data without ties on k, the view sorted by k descending is the
\* reverse of the view sorted by k ascending.
C9_DescIsReverseOfAsc ==
  [][\A c \in Cols :
       (/\ Clicked(c)
        /\ columns[c].sortable
        /\ sortKey = columns[c].key
        /\ sortDirection = Asc
        /\ NoTies(data, columns[c].key)) =>
         View' = Reverse(View)]_vars

\* C10: rows of the sorted view whose key values compare as 0 are in the
\* order they have in data, ascending and descending.
C10_Stable ==
  (sortKey # Null /\ sortDirection # Null) =>
    \A i, j \in 1..Len(View) :
      (i < j /\ compareValues(Get(View[i], sortKey), Get(View[j], sortKey)) = 0)
        => View[i].id < View[j].id

(***************************************************************************)
(* compareValues                                                           *)
(***************************************************************************)
Compared == call.fn = "compareValues"

BothDates == call.a.t = "date" /\ call.b.t = "date"

Sign(x) == IF x < 0 THEN -1 ELSE IF x > 0 THEN 1 ELSE 0

\* C11 as stated: for every pair of cell values of the supported kinds,
\* compareValues returns -1, 0 or 1.
C11_MinusOneZeroOne == Compared => call.result \in {-1, 0, 1}

\* C11, amended: compareValues returns -1, 0 or 1 for every pair of cell
\* values of the supported kinds except a pair of dates, for which it
\* returns the difference of their time values in milliseconds.
C11_ResultRange ==
  Compared =>
    IF BothDates
    THEN call.result = (call.a.n - call.b.n) * 86400000
    ELSE call.result \in {-1, 0, 1}

\* two dates two days apart were compared
C11_Witness ==
  /\ Compared
  /\ BothDates
  /\ call.result \notin {-1, 0, 1}

\* C12: compareValues agrees in sign with the reference order on values of
\* one kind: 0 for equal values (two dates of the same instant included),
\* negative when only a is absent, positive when only b is absent, the
\* numeric order for two numbers, the chronological order for two dates,
\* false before true for two booleans.  NaN has no place in the numeric
\* order and is equal to no value.
C12_ReferenceOrder ==
  Compared =>
    LET a == call.a
        b == call.b
        r == call.result
        ordered == /\ a.t = b.t
                   /\ a.t \in {"number", "date", "boolean"}
    IN /\ (a = b /\ a.t # "NaN") => r = 0
       /\ (IsNullish(a) /\ ~IsNullish(b)) => r < 0
       /\ (IsNullish(b) /\ ~IsNullish(a)) => r > 0
       /\ (ordered /\ a.n < b.n) => r < 0
       /\ (ordered /\ a.n > b.n) => r > 0

\* two Date objects of the same instant were compared
C12_Witness ==
  /\ Compared
  /\ BothDates
  /\ call.a.n = call.b.n
  /\ call.result = 0

\* C13: compareValues is antisymmetric: for every pair (a, b), null and
\* undefined included, the sign of compareValues(a, b) is the opposite of
\* the sign of compareValues(b, a).
C13_Antisymmetric ==
  Compared => Sign(call.result) = 0 - Sign(call.swapped)

\* null was compared with undefined, either of them first
C13_NullUndefined ==
  /\ Compared
  /\ call.a = Null
  /\ call.b = Undefined
  /\ call.result = -1
  /\ call.swapped = -1

(***************************************************************************)
(* Row selection                                                           *)
(***************************************************************************)
\* the members of the selection
Members(set) == Range(set)

\* list holds one element per member of set, the element of view at it
RowsAt(list, set, view) ==
  \E p \in Permutations(set) :
    /\ Len(list) = Len(p)
    /\ \A j \in 1..Len(p) : list[j] = At(view, p[j])

\* C14: a click on the checkbox of the row at index makes the selection
\* old + {index} when the row was not selected and old - {index} when it
\* was, keeps it a set, and calls onRowSelect exactly once, with one row
\* per selected index, the row at that index of the sorted view.
C14_RowSelect ==
  [][event'.type = "rowselect" =>
       LET index == event'.arg
       IN /\ Members(selectedRows') =
               IF Has(selectedRows, index)
               THEN Members(selectedRows) \ {index}
               ELSE Members(selectedRows) \cup {index}
          /\ Cardinality(Members(selectedRows')) = Len(selectedRows')
          /\ Len(onRowSelectCalls') = 1
          /\ RowsAt(onRowSelectCalls'[1], selectedRows', View)
          /\ View' = View]_vars

\* both rows of a view sorted into another order than data were selected,
\* one by one
C14_Witness ==
  /\ event.type = "rowselect"
  /\ Len(selectedRows) = 2
  /\ sortedData = "copy"
  /\ copy # data
  /\ Len(onRowSelectCalls) = 1

\* C15: a click on the select-all button of a view of N rows empties the
\* selection when its size is N and makes it exactly {0 .. N-1} otherwise,
\* and calls onRowSelect once with the rows of the new selection; so from
\* no selected row one click selects all N rows and a second deselects all.
C15_SelectAll ==
  [][event'.type = "selectall" =>
       LET N == Len(View)
       IN /\ IF Len(selectedRows) = N
             THEN selectedRows' = <<>>
             ELSE /\ Members(selectedRows') = 0..(N - 1)
                  /\ Len(selectedRows') = N
          /\ Len(onRowSelectCalls') = 1
          /\ RowsAt(onRowSelectCalls'[1], selectedRows', View)
          /\ View' = View]_vars

\* a select-all click on a complete selection of two rows has emptied it
C15_Witness ==
  /\ event.type = "selectall"
  /\ Len(View) = 2
  /\ selectedRows = <<>>
  /\ onRowSelectCalls = <<<<>>>>

\* C16 as stated: in every reachable state, N = 0 included, the summary is
\* NONE when the selection is empty, ALL when its size is the view length
\* N, and PARTIAL when 0 < size < N.
C16_Summary ==
  LET size == Len(selectedRows)
      N == Len(View)
  IN /\ size = 0 => selectAllState = "none"
     /\ size = N => selectAllState = "all"
     /\ (0 < size /\ size < N) => selectAllState = "partial"

\* C16, amended: in every reachable state, N = 0 included, the summary is
\* NONE when the selection is empty, ALL when the selection is not empty
\* and its size is the view length N, and PARTIAL when 0 < size < N.
C16_SummaryNoneFirst ==
  LET size == Len(selectedRows)
      N == Len(View)
  IN /\ size = 0 => selectAllState = "none"
     /\ (size # 0 /\ size = N) => selectAllState = "all"
     /\ (0 < size /\ size < N) => selectAllState = "partial"

\* a data prop without rows was given to a table with no selection: the
\* selection is empty and of the size of the view, and the summary is NONE
C16_Witness ==
  /\ event.type = "data"
  /\ Len(View) = 0
  /\ Len(selectedRows) = 0
  /\ selectAllState = "none"

\* C17: for every selection and every row index i not in it, two clicks in
\* a row on the checkbox of row i, which select i and then deselect it,
\* leave the selection exactly as it was before them.
C17_SelectDeselect ==
  toggle.n = 2 =>
    /\ selectedRows = toggle.before
    /\ ~Has(selectedRows, toggle.index)

\* a row was selected and deselected next to another selected row
C17_Witness ==
  /\ toggle.n = 2
  /\ event.type = "rowselect"
  /\ Len(toggle.before) = 1
  /\ selectedRows = toggle.before

\* C18: the selection changes only through handleRowSelect and
\* handleSelectAll: a header click or key press (any handleSort transition)
\* and a change of the data prop leave the selected indices unchanged and
\* call onRowSelect not at all.
C18_SelectionFrame ==
  [][/\ event'.type \notin {"rowselect", "selectall"} =>
          /\ selectedRows' = selectedRows
          /\ onRowSelectCalls' = <<>>
     /\ selectedRows' # selectedRows =>
          event'.type \in {"rowselect", "selectall"}]_vars

\* a sort click has put another row at a selected index
C18_Witness ==
  /\ event.type = "click"
  /\ selectedRows # <<>>
  /\ sortedData = "copy"
  /\ At(copy, selectedRows[1]) # At(data, selectedRows[1])
  /\ onRowSelectCalls = <<>>

\* a data prop change has put another row at a selected index, or none
C18_WitnessData ==
  /\ event.type = "data"
  /\ selectedRows = <<1>>
  /\ Len(View) = 1
  /\ onRowSelectCalls = <<>>

\* the members of set in ascending order
Ascending(set) ==
  CHOOSE p \in Permutations(set) :
    \A i, j \in 1..Len(p) : i < j => p[i] < p[j]

\* the rows of view at the indices of the sequence indices, in its order
Rows(indices, view) == [j \in 1..Len(indices) |-> At(view, indices[j])]

\* C19 as stated: the list passed to onRowSelect has the selected rows in
\* ascending index order of the sorted view, for every order of the toggles.
C19_AscendingOrder ==
  Len(onRowSelectCalls) = 1 =>
    onRowSelectCalls[1] = Rows(Ascending(selectedRows), View)

\* C19, amended: the list passed to onRowSelect has the selected rows in
\* the order in which their indices entered the selection: a click that
\* selects index i passes the rows at the indices selected before, in their
\* order, followed by the row at i; a click that deselects i passes them
\* without the row at i; a select-all click that selects passes the rows
\* of the view in ascending index order.
C19_InsertionOrder ==
  [][/\ event'.type = "rowselect" =>
          LET i == event'.arg
          IN onRowSelectCalls' =
               IF Has(selectedRows, i)
               THEN <<Rows(SelectSeq(selectedRows, LAMBDA x : x # i), View)>>
               ELSE <<Rows(selectedRows, View) \o <<At(View, i)>>>>
     /\ event'.type = "selectall" =>
          \/ onRowSelectCalls' = <<<<>>>>
          \/ onRowSelectCalls' = <<View>>]_vars

\* row 1 was selected before row 0 and is passed before it
C19_Witness ==
  /\ event.type = "rowselect"
  /\ Len(View) = 2
  /\ selectedRows = <<1, 0>>
  /\ onRowSelectCalls = <<<<At(View, 1), At(View, 0)>>>>

(***************************************************************************)
(* renderCell                                                              *)
(***************************************************************************)
\* the display string of a cell value
DisplayString(value) ==
  CASE value = Null -> ""
    [] value = Undefined -> ""
    [] value = Bool(TRUE) -> "true"
    [] value = Bool(FALSE) -> "false"
    [] value = Num(0) -> "0"
    [] value = Num(1) -> "1"
    [] value = NaN -> "NaN"
    [] value.t = "string" -> value.s

\* C20: renderCell(column, row) returns column.render(row[column.key], row)
\* as it is when column.render is supplied; otherwise it returns the string
\* form of row[column.key], the empty string for a null or absent value and
\* "true" or "false" for a boolean.
C20_RenderCell ==
  call.fn = "renderCell" =>
    LET value == call.row.cells[call.column.key.n + 1]
    IN IF call.column.render \in Renders
       THEN call.result = ApplyRender(call.column.render, value, call.row)
       ELSE call.result = Str(DisplayString(value))

\* the cell false was rendered without a render function
C20_Witness ==
  /\ call.fn = "renderCell"
  /\ call.column.render = NoRender
  /\ call.row.cells[call.column.key.n + 1] = Bool(FALSE)
  /\ call.result = Str("false")

\* a render function returned null for a cell, and null was returned
C20_WitnessRender ==
  /\ call.fn = "renderCell"
  /\ call.column.render = "null"
  /\ call.row.cells[call.column.key.n + 1] = Num(1)
  /\ call.result = Null

(***************************************************************************)
(* Display states of the DataTable                                         *)
(***************************************************************************)
\* the empty-message display, showing emptyMessage or its default
EmptyDisplay ==
  /\ call.result.state = "empty"
  /\ call.result.text =
       IF call.emptyMessage = Undefined THEN Str("No data available")
       ELSE call.emptyMessage

\* C21 as stated: whenever data is empty, whatever the other props, the
\* DataTable renders the empty-message display, showing emptyMessage
\* (default "No data available"), instead of a table.
C21_EmptyState ==
  (call.fn = "DataTable" /\ Len(call.data) = 0) => EmptyDisplay

\* C21, amended: whenever data is empty the DataTable renders no table; it
\* renders the empty-message display, showing emptyMessage (default "No
\* data available"), when loading is false, and the loading display when
\* loading is true.
C21_EmptyUnlessLoading ==
  (call.fn = "DataTable" /\ Len(call.data) = 0) =>
    /\ call.result.state # "table"
    /\ ~call.loading => EmptyDisplay
    /\ call.loading => call.result.state = "loading"

\* an empty data array was rendered while loading, with a message supplied
C21_Witness ==
  /\ call.fn = "DataTable"
  /\ Len(call.data) = 0
  /\ call.loading
  /\ call.emptyMessage = Str("a")
  /\ call.result.state = "loading"

\* an empty data array was rendered with no message supplied
C21_WitnessDefault ==
  /\ call.fn = "DataTable"
  /\ Len(call.data) = 0
  /\ ~call.loading
  /\ call.emptyMessage = Undefined
  /\ call.result = [state |-> "empty", text |-> Str("No data available")]

(***************************************************************************)
(* ThemeToggle                                                             *)
(***************************************************************************)
\* C22: after mount and after every toggle has taken effect, localStorage
\* 'theme' is "dark" and the document root carries the class 'dark'
\* exactly when isDark is true, and 'theme' is "light" with no class 'dark'
\* otherwise; each toggle flips isDark.
C22_PersistedApplied ==
  /\ [](themeMounted /\ ~effectPending =>
          /\ themeStorage = IF isDark THEN Str("dark") ELSE Str("light")
          /\ rootDark = isDark)
  /\ [][themeEvent' = "toggle" => isDark' = ~isDark]_vars

\* a toggle from dark to light has taken effect
C22_Witness ==
  /\ themeMounted
  /\ themeEvent = "effect"
  /\ toggles > 0
  /\ ~isDark
  /\ ~rootDark
  /\ themeStorage = Str("light")

\* C23: as long as the toggle was never clicked, the theme a ThemeToggle
\* shows on mount is the system colour scheme at that mount, whatever
\* mounts, unmounts and changes of the system colour scheme came before.
C23_FollowsSystem ==
  (themeEvent = "mount" /\ toggles = 0) => isDark = prefersDark

\* a ThemeToggle mounted again after the system colour scheme had changed
C23_Remount ==
  /\ themeEvent = "mount"
  /\ toggles = 0
  /\ themeStorage = Str("light")
  /\ prefersDark
  /\ ~isDark

(***************************************************************************)
(* InputField                                                              *)
(***************************************************************************)
\* C24 as stated: the clear button is rendered whenever showClearButton is
\* true and the value is not empty, whatever the other props.
C24_ClearButton ==
  (inputProps.showClearButton /\ inputProps.value = Str("a")) => ClearButton

\* C24, amended: the clear button is rendered whenever showClearButton is
\* true, the value is not empty and loading is false, whatever the other
\* props; while loading is true it is not rendered.
C24_ClearButtonUnlessLoading ==
  /\ (/\ inputProps.showClearButton
      /\ inputProps.value = Str("a")
      /\ ~inputProps.loading) => ClearButton
  /\ inputProps.loading => ~ClearButton

\* a loading InputField with a value and showClearButton was rendered
C24_Witness ==
  /\ inputProps.showClearButton
  /\ inputProps.value = Str("a")
  /\ inputProps.loading
  /\ inputProps.disabled
  /\ ~ClearButton

\* C25: for an InputField of type 'password' with showPasswordToggle each
\* click on the toggle button flips the rendered input type between
\* 'password' and 'text', starting from 'password' at mount; for every
\* other type prop the rendered input type is the type prop, whatever
\* showPassword is.
C25_PasswordToggle ==
  /\ [](inputProps.type # "password" => inputType = inputProps.type)
  /\ [](inputEvent.type = "mount" => inputType = inputProps.type)
  /\ [][inputEvent'.type = "toggle" =>
          /\ inputProps.type = "password"
          /\ inputProps.showPasswordToggle
          /\ inputType' = IF inputType = "password" THEN "text" ELSE "password"
          /\ inputType = IF showPassword THEN "text" ELSE "password"]_vars

\* the password was shown by a click on the toggle
C25_Witness ==
  /\ inputEvent.type = "toggle"
  /\ inputProps.type = "password"
  /\ showPassword
  /\ inputType = "text"

\* the type prop became 'email' while the password was shown
C25_WitnessOtherType ==
  /\ inputProps.type = "email"
  /\ showPassword
  /\ inputType = "email"

\* C30: for every combination of props, when no aria-describedby prop is
\* given and the aria-describedby the component derives is not undefined,
\* it is the id of a helper or error element that is rendered.
C30_DescribedByRendered ==
  (inputProps.ariaDescribedBy = Undefined /\ ariaDescribedByAttr # Undefined)
    => ariaDescribedByAttr \in DescriptionIds

\* helper text and an error: the attribute names the helper id while the
\* element rendered carries the error id
C30_HelperWithError ==
  /\ inputProps.ariaDescribedBy = Undefined
  /\ inputProps.helperText = Str("h")
  /\ inputProps.errorMessage = Str("e")
  /\ ariaDescribedByAttr = helperId
  /\ DescriptionIds = {errorId}

\* invalid without any text: the attribute names an error element while
\* none is rendered
C30_InvalidWithoutText ==
  /\ inputProps.ariaDescribedBy = Undefined
  /\ inputProps.invalid
  /\ inputProps.helperText = Undefined
  /\ inputProps.errorMessage = Undefined
  /\ ariaDescribedByAttr = errorId
  /\ DescriptionIds = {}

(***************************************************************************)
(* Selection and sort state over events and data changes                   *)
(***************************************************************************)
\* C26: in every reachable state every selected index is an index of the
\* sorted view (0 <= i < N), and every element of a list passed to
\* onRowSelect is a row of the view, never undefined.
C26_ValidIndices ==
  /\ \A i \in Members(selectedRows) : 0 <= i /\ i < Len(View)
  /\ \A c \in 1..Len(onRowSelectCalls) :
       \A j \in 1..Len(onRowSelectCalls[c]) :
         /\ onRowSelectCalls[c][j] # UndefinedRow
         /\ onRowSelectCalls[c][j] \in Range(View)

\* a data prop with fewer rows has left a selected index beyond the view
C26_StaleIndex ==
  /\ event.type = "data"
  /\ Len(View) = 1
  /\ selectedRows = <<1>>

\* a row was selected next to the stale index: undefined was passed
C26_UndefinedPassed ==
  /\ event.type = "rowselect"
  /\ Len(View) = 1
  /\ selectedRows = <<1, 0>>
  /\ onRowSelectCalls = <<<<UndefinedRow, View[1]>>>>

\* C27: in every reachable state sortKey is null exactly when
\* sortDirection is null, a single key being active at most, and an active
\* key is the key of a sortable column (the columns of a mounted table do
\* not change, so sortable now is sortable at the click).
C27_SortState ==
  /\ sortKey = Null <=> sortDirection = Null
  /\ sortDirection \in {Null, Asc, Desc}
  /\ sortKey # Null =>
       \E c \in Cols : columns[c].key = sortKey /\ columns[c].sortable

\* the column of key 0 is active, descending, next to a column not sortable
C27_Witness ==
  /\ sortKey = Num(0)
  /\ sortDirection = Desc
  /\ ~columns[2].sortable
  /\ event.type = "click"

\* the rows the table shows as selected
ShownSelected == {At(View, i) : i \in Members(selectedRows)}

\* C28: after any sequence of row toggles, select-all clicks and sort
\* clicks, the list most recently passed to onRowSelect holds exactly the
\* rows the table shows as selected.  As a property of the steps: an event
\* that changes the rows shown as selected passes them to onRowSelect (if
\* it does not, the latest list differs from the rows shown before the
\* event or after it).
C28_LastListCurrent ==
  [][event'.type \in {"click", "keydown", "rowselect", "selectall"} =>
       \/ ShownSelected' = ShownSelected
       \/ /\ Len(onRowSelectCalls') = 1
          /\ Range(onRowSelectCalls'[1]) = ShownSelected']_vars

\* a sort click has changed the row shown as selected and passed nothing
C28_SortClick ==
  /\ event.type = "click"
  /\ Len(selectedRows) = 1
  /\ Len(View) = 2
  /\ sortedData = "copy"
  /\ At(copy, selectedRows[1]) # At(data, selectedRows[1])
  /\ onRowSelectCalls = <<>>

\* C29: in every reachable state the select-all summary is ALL exactly
\* when every row of the view is selected: N >= 1 and every index 0..N-1
\* is in the selection.
C29_AllMeansAll ==
  selectAllState = "all" <=>
    /\ Len(View) >= 1
    /\ \A i \in 0..(Len(View) - 1) : Has(selectedRows, i)

\* the summary is ALL while the only row of the view is not selected
C29_AllButNone ==
  /\ Len(View) = 1
  /\ selectedRows = <<1>>
  /\ selectAllState = "all"

=============================================================================
